---- MODULE Spec2Model ----
(***************************************************************************)
(* Kenjector: process catalogue (get_processes), privilege and             *)
(* architecture inspection (is_elevated, architecture), the injection      *)
(* protocol (kennject, get_pid, open_process) and the Kenject / Refresh    *)
(* click handlers that drive them.                                         *)
(*                                                                         *)
(* Text is modelled as sequences of code units: process names are the      *)
(* bytes of PROCESSENTRY32.szExeFile, Rust strings are their UTF-8 bytes.  *)
(* Every OS call is an input of the step that makes it: its outcome is     *)
(* drawn from the outcomes the call can have.                              *)
(***************************************************************************)
EXTENDS Integers, Sequences, FiniteSets, TLC

\* ------------------------------------------------------------------ bounds
\* Largest number of entries in one process snapshot.
MaxProcs == 2

\* ------------------------------------------------------- values and helpers
Ok(v) == [ok |-> TRUE, val |-> v]
Err(e) == [ok |-> FALSE, err |-> e]

\* Byte strings that szExeFile can hold: "a", "A", "e-acute" and "E-acute"
\* in UTF-8 (C3 A9, C3 89), and a lone continuation byte (A9: the ANSI
\* code page spelling of a non-ASCII letter, which is not UTF-8).
ExeNames == {<<97>>, <<65>>, <<195, 169>>, <<195, 137>>, <<169>>}

\* Process IDs a snapshot can list: 0 is the system idle process.
Pids == {0, 4, 8}

\* Integer widths, scaled so that the values fit TLC's integers: a
\* u32 is a value below 2^9 and a u64 a value below 2^16.  Casting u64 to
\* u32 keeps the low-order bits.
U32_MODULUS == 2 ^ 9
U64_MAX == 2 ^ 16 - 1
as_u32(x) == x % U32_MODULUS

Entries == [th32ProcessID : Pids, szExeFile : ExeNames]

DistinctPids(s) == \A i, j \in 1..Len(s) : i # j => s[i].th32ProcessID # s[j].th32ProcessID

\* The process tables a snapshot can capture: process IDs are unique in one
\* snapshot, enumeration order is arbitrary.
SeqsUpTo(S, n) == UNION {[1..k -> S] : k \in 0..n}
Tables == {s \in SeqsUpTo(Entries, MaxProcs) : DistinctPids(s)}

\* CreateToolhelp32Snapshot gives a valid handle or, on failure,
\* INVALID_HANDLE_VALUE; the code tests the handle against null.
SnapshotOutcomes ==
  {[handle |-> "VALID", entries |-> t] : t \in Tables}
    \cup {[handle |-> h, entries |-> <<>>] : h \in {"INVALID", "NULL"}}

\* ------------------------------------------------------------ text helpers
IsAscii(b) == b < 128
IsCont(b) == b >= 128 /\ b <= 191
IsLead2(b) == b >= 194 /\ b <= 223
IsLead3(b) == b >= 224 /\ b <= 239

\* Length of the well-formed UTF-8 sequence that starts at s[i], or 0 (one-
\* to three-byte sequences; the code units used here need no longer ones).
Utf8SeqLen(s, i) ==
  IF IsAscii(s[i]) THEN 1
  ELSE IF IsLead2(s[i]) /\ i + 1 <= Len(s) /\ IsCont(s[i + 1]) THEN 2
  ELSE IF /\ IsLead3(s[i]) /\ i + 2 <= Len(s) /\ IsCont(s[i + 1]) /\ IsCont(s[i + 2])
          /\ (s[i] = 224 => s[i + 1] >= 160)
          /\ (s[i] = 237 => s[i + 1] <= 159)
    THEN 3
  ELSE 0

\* CStr::to_str / str::from_utf8
RECURSIVE ValidUtf8From(_, _)
ValidUtf8From(s, i) ==
  IF i > Len(s) THEN TRUE
  ELSE IF Utf8SeqLen(s, i) = 0 THEN FALSE
  ELSE ValidUtf8From(s, i + Utf8SeqLen(s, i))

to_str(bytes) == IF ValidUtf8From(bytes, 1) THEN Ok(bytes) ELSE Err("Utf8Error")

\* U+FFFD in UTF-8.
Replacement == <<239, 191, 189>>

\* CStr::to_string_lossy: well-formed sequences are kept, every other byte
\* becomes U+FFFD.
RECURSIVE LossyFrom(_, _)
LossyFrom(s, i) ==
  IF i > Len(s) THEN <<>>
  ELSE IF Utf8SeqLen(s, i) = 0 THEN Replacement \o LossyFrom(s, i + 1)
  ELSE SubSeq(s, i, i + Utf8SeqLen(s, i) - 1) \o LossyFrom(s, i + Utf8SeqLen(s, i))

to_string_lossy(bytes) == LossyFrom(bytes, 1)

AsciiLowerBroken(b) == b
\* u8::to_ascii_lowercase
AsciiLower(b) == IF b >= 65 /\ b <= 90 THEN b + 32 ELSE b

\* str::eq_ignore_ascii_case
eq_ignore_ascii_case(a, b) ==
  /\ Len(a) = Len(b)
  /\ \A i \in 1..Len(a) : AsciiLower(a[i]) = AsciiLower(b[i])

\* {:X}: the digits of n in base 16, most significant first, upper case.
HexDigits == <<"0", "1", "2", "3", "4", "5", "6", "7", "8", "9", "A", "B", "C", "D", "E", "F">>

RECURSIVE UpperHex(_)
UpperHex(n) ==
  IF n < 16 THEN <<HexDigits[n + 1]>>
  ELSE UpperHex(n \div 16) \o <<HexDigits[(n % 16) + 1]>>

\* A message: its fixed text parts and the digits formatted into it.
Msg(parts) == [text |-> parts, num |-> <<>>]
MsgNum(parts, n) == [text |-> parts, num |-> UpperHex(n)]

\* ------------------------------------------------------------ open_process
\* OpenProcess either grants a handle or returns null: access denied, or
\* no process has that ID (any more).
OpenOutcomes == {"granted", "denied", "no_such_process"}

open_process(access, process_id, os) ==
  IF os = "granted" THEN Ok([access |-> access, process_id |-> process_id])
  ELSE Err(Msg(<<"Failed to retrieve handle of the process">>))

\* -------------------------------------------------------------- is_elevated
\* What OpenProcessToken and GetTokenInformation answer for one handle.
TokenOutcomes ==
  {[token |-> FALSE, info |-> FALSE, TokenIsElevated |-> 0],
   [token |-> TRUE, info |-> FALSE, TokenIsElevated |-> 0],
   [token |-> TRUE, info |-> TRUE, TokenIsElevated |-> 0],
   [token |-> TRUE, info |-> TRUE, TokenIsElevated |-> 1]}

is_elevated(os) ==
  IF ~os.token THEN Err("Failed to open process token")
  ELSE IF ~os.info THEN Err("Failed to get token information")
  ELSE Ok(os.TokenIsElevated # 0)

\* ------------------------------------------------------------- architecture
\* IMAGE_FILE_MACHINE_* values IsWow64Process2 can report.
OsMachine ==
  [UNKNOWN |-> 0, I386 |-> 332, ARM |-> 448, ARMNT |-> 452, IA64 |-> 512,
   AMD64 |-> 34404, ARM64 |-> 43620]
Machines == {OsMachine[k] : k \in DOMAIN OsMachine}

\* The one machine constant the module imports.
IMAGE_FILE_MACHINE_I386 == 332

\* IsWow64Process2 fails, or reports a pair of machines.
WowOutcomes ==
  {[ok |-> FALSE, process_machine |-> 0, native_machine |-> 0]}
    \cup [ok : {TRUE}, process_machine : Machines, native_machine : Machines]

\* A match pattern is a path to a constant in scope, or an identifier that
\* names nothing in scope and therefore binds whatever value it meets.
ConstPat(c) == [kind |-> "const", value |-> c]
BindPat(id) == [kind |-> "bind", value |-> 0]
WildPat == [kind |-> "wild", value |-> 0]

PatMatches(p, v) == p.kind # "const" \/ p.value = v

\* The arms of the match, in source order.  Of the four names used, only
\* IMAGE_FILE_MACHINE_I386 is imported.
ArchArms ==
  << [pm |-> BindPat("IMAGE_FILE_MACHINE_UNKNOWN"), nm |-> BindPat("IMAGE_FILE_MACHINE_AMD64"), arch |-> "AMDx64"],
     [pm |-> ConstPat(IMAGE_FILE_MACHINE_I386), nm |-> BindPat("IMAGE_FILE_MACHINE_AMD64"), arch |-> "AMDx86"],
     [pm |-> ConstPat(IMAGE_FILE_MACHINE_I386), nm |-> ConstPat(IMAGE_FILE_MACHINE_I386), arch |-> "AMDx86"],
     [pm |-> BindPat("IMAGE_FILE_MACHINE_UNKNOWN"), nm |-> BindPat("IMAGE_FILE_MACHINE_ARM64"), arch |-> "Arm64"],
     [pm |-> WildPat, nm |-> WildPat, arch |-> "Unknown"] >>

ArmMatches(a, pm, nm) == PatMatches(a.pm, pm) /\ PatMatches(a.nm, nm)

\* The first arm that matches is taken.
MatchArch(pm, nm) ==
  LET i == CHOOSE k \in 1..Len(ArchArms) :
             /\ ArmMatches(ArchArms[k], pm, nm)
             /\ \A j \in 1..(k - 1) : ~ArmMatches(ArchArms[j], pm, nm)
  IN ArchArms[i].arch

architecture(os) ==
  IF ~os.ok THEN Err("IsWow64Process2 failed")
  ELSE Ok(MatchArch(os.process_machine, os.native_machine))

\* ----------------------------------------------------------------- get_pid
\* Index of the first entry, from i on, whose name is valid UTF-8 and
\* equals name ignoring ASCII case; 0 when Process32Next runs out.
RECURSIVE ScanFrom(_, _, _)
ScanFrom(entries, name, i) ==
  IF i > Len(entries) THEN 0
  ELSE LET exe_name == to_str(entries[i].szExeFile)
       IN IF exe_name.ok /\ eq_ignore_ascii_case(exe_name.val, name) THEN i
          ELSE ScanFrom(entries, name, i + 1)

\* get_pid on the snapshot the OS hands out: the result, whether a snapshot
\* handle was opened, and how often CloseHandle was called on it.
get_pid(name, os) ==
  IF os.handle = "NULL"
    THEN [res |-> Err(Msg(<<"CreateToolhelp32Snapshot failed">>)), opened |-> FALSE, closes |-> 0]
  ELSE IF os.handle # "VALID" \/ Len(os.entries) = 0
    THEN [res |-> Err(Msg(<<"Process32First failed">>)), opened |-> os.handle = "VALID", closes |-> 1]
  ELSE LET i == ScanFrom(os.entries, name, 1)
       IN IF i # 0
            THEN [res |-> Ok(os.entries[i].th32ProcessID), opened |-> TRUE, closes |-> 1]
            ELSE [res |-> Err(Msg(<<"Process not found">>)), opened |-> TRUE, closes |-> 1]

\* ----------------------------------------------------------- module path
\* A path is a sequence of code points: "c", "c" followed by e-acute, a
\* path with an interior NUL, and an unpaired surrogate (not Unicode text).
Paths == {<<99>>, <<99, 233>>, <<99, 0, 99>>, <<55296>>}

IsSurrogate(c) == c >= 55296 /\ c <= 57343

Utf8Encode(c) == IF c < 128 THEN <<c>> ELSE <<192 + (c \div 64), 128 + (c % 64)>>

RECURSIVE Utf8Bytes(_)
Utf8Bytes(p) == IF p = <<>> THEN <<>> ELSE Utf8Encode(Head(p)) \o Utf8Bytes(Tail(p))

\* Path::to_str(..).ok_or("Invalid DLL path")
path_to_str(p) ==
  IF \E i \in 1..Len(p) : IsSurrogate(p[i]) THEN Err(Msg(<<"Invalid DLL path">>))
  ELSE Ok(Utf8Bytes(p))

\* CString::new(..).map_err(|_| "CString conversion failed")
CString_new(bytes) ==
  IF \E i \in 1..Len(bytes) : bytes[i] = 0 THEN Err(Msg(<<"CString conversion failed">>))
  ELSE Ok(bytes)

to_bytes_without_nul(cstring) == cstring
\* CString::to_bytes_with_nul
to_bytes_with_nul(cstring) == cstring \o <<0>>

\* --------------------------------------------------------------- is_pe_dll
IMAGE_FILE_DLL == 8192

\* What reading and parsing the file gives: unreadable, not an image, or
\* an image with these header characteristics (0x0102 and 0x0002 are
\* executables, 0x2102 and 0x2000 libraries).
FileOutcomes ==
  {[read |-> FALSE, parse |-> FALSE, characteristics |-> 0],
   [read |-> TRUE, parse |-> FALSE, characteristics |-> 0]}
    \cup [read : {TRUE}, parse : {TRUE}, characteristics : {2, 258, 8192, 8450}]

BitAndDllWhole(x) == x
\* x & IMAGE_FILE_DLL
BitAndDll(x) == ((x \div IMAGE_FILE_DLL) % 2) * IMAGE_FILE_DLL

is_pe_dll(os) ==
  IF ~os.read THEN Err("io error")
  ELSE IF ~os.parse THEN Err("parse error")
  ELSE Ok(BitAndDll(os.characteristics) # 0)

\* =================================================================== state
VARIABLES
  pc,               \* where the UI thread is
  panic,            \* "" or the panic that ended the program
  kenjection_info,  \* Kenject handler: the KenjectionInfo it built
  path,             \* Kenject handler: PathBuf::from(input.text())
  msgs,             \* message boxes the running handler has shown
  held,             \* process handles the running handler opened outside
                    \* kennject and has not closed
  priv,             \* Kenject handler: what its checks have seen
  snap,             \* kennject: what the snapshot of get_pid held (kept
                    \* until the statement after get_pid has run, or
                    \* until the caller has taken the result), <<>> otherwise
  process_id,       \* kennject: the process ID get_pid resolved
  dll_cstring,      \* kennject: the converted module path
  opens,            \* kennject: handles opened by this call, by kind
  closes,           \* kennject: CloseHandle calls of this call, by kind
  alloc,            \* kennject: the memory allocated in the target
  load_library,     \* kennject: the resolved loader entry point
  thread,           \* the remote thread
  remote_result,    \* kennject: the exit code it read (0 until then)
  stages,           \* kennject: the stage calls made so far, with outcome
  kres,             \* kennject: <<>> or <<the returned Result>>
  gp_snapshot,      \* get_processes: its snapshot handle and entries
  cursor,           \* get_processes: index of the current entry
  processes,        \* get_processes: the Vec<ProcessInfo> built so far
  call,             \* a direct call of a public function: its name and
                    \* what the OS answers it
  ret               \* <<>> or <<what that call returned>>

vars ==
  <<pc, panic, kenjection_info, path, msgs, held, priv, snap, process_id, dll_cstring,
    opens, closes, alloc, load_library, thread, remote_result, stages, kres, gp_snapshot,
    cursor, processes, call, ret>>

HandleKinds == {"snapshot", "process", "thread"}

NoInfo == [name |-> <<>>, process_id |-> 0]
NoHandles == [k \in HandleKinds |-> 0]
NoAlloc == [state |-> "none", addr |-> 0, size |-> 0, bytes |-> <<>>]
NoThread == [state |-> "none", start_routine |-> "null", parameter |-> 0, module_base |-> 0, exit_code |-> 0]
NoSnapshot == [handle |-> "NULL", entries |-> <<>>, closed |-> FALSE]

\* Addresses VirtualAllocEx can return in the target.
RemoteAddrs == {4096, 8192}

\* Values LoadLibraryA can return in the target: 0 (not loaded) or the
\* module's base address, a pointer-sized value (below 2^16 at the scaled
\* widths; 512 and 528 do not fit a u32).
ModuleBases == {0, 16, 512, 528}

\* The exit code GetExitCodeThread reports for a thread that still runs.
STILL_ACTIVE == 259

KennjectVars ==
  <<snap, process_id, dll_cstring, opens, closes, alloc, load_library, thread, remote_result,
    stages, kres>>
CatalogVars == <<gp_snapshot, cursor, processes>>
HandlerVars == <<kenjection_info, path, msgs, held, priv>>
DirectVars == <<call, ret>>

Stage(name, ok) == [stage |-> name, ok |-> ok]

\* ================================================================ kennject
\* `?` on an Err, or an explicit return Err(..): kennject returns.
KReturn(r) == kres' = <<r>> /\ pc' = "k_return"

\* let process_id = Self::get_pid(&kenjection_info.name).map_err(..)?
K_GetPid ==
  /\ UNCHANGED DirectVars
  /\ pc = "k_get_pid"
  /\ \E os \in SnapshotOutcomes :
       LET r == get_pid(kenjection_info.name, os) IN
         /\ snap' = <<os>>
         /\ opens' = [opens EXCEPT !.snapshot = IF r.opened THEN 1 ELSE 0]
         /\ closes' = [closes EXCEPT !.snapshot = r.closes]
         /\ stages' = Append(stages, Stage("get_pid", r.res.ok))
         /\ IF r.res.ok
              THEN process_id' = r.res.val /\ pc' = "k_path" /\ kres' = kres
              ELSE /\ process_id' = process_id
                   /\ KReturn(Err([text |-> <<"Failed to get PID: ">> \o r.res.err.text, num |-> <<>>]))
  /\ UNCHANGED <<panic, dll_cstring, alloc, load_library, thread, remote_result, HandlerVars,
                 CatalogVars>>

\* path.to_str().ok_or(..)?  then  CString::new(dll_str).map_err(..)?
K_Path ==
  /\ UNCHANGED DirectVars
  /\ pc = "k_path"
  /\ LET dll_str == path_to_str(path) IN
       IF ~dll_str.ok
         THEN /\ stages' = Append(stages, Stage("to_str", FALSE))
              /\ KReturn(Err(dll_str.err))
              /\ dll_cstring' = dll_cstring
         ELSE LET c == CString_new(dll_str.val) IN
                /\ stages' = stages \o <<Stage("to_str", TRUE), Stage("CString::new", c.ok)>>
                /\ IF c.ok
                     THEN dll_cstring' = c.val /\ pc' = "k_open" /\ kres' = kres
                     ELSE dll_cstring' = dll_cstring /\ KReturn(Err(c.err))
  /\ snap' = <<>>
  /\ UNCHANGED <<panic, process_id, opens, closes, alloc, load_library, thread, remote_result,
                 HandlerVars, CatalogVars>>

\* let h_process = Self::open_process(Access::Full, process_id).unwrap();
\* open_process is Ok only with a non-null handle, so the null test that
\* follows the unwrap never succeeds.
K_Open ==
  /\ UNCHANGED DirectVars
  /\ pc = "k_open"
  /\ \E os \in OpenOutcomes :
       LET h == open_process("Full", process_id, os) IN
         /\ stages' = Append(stages, Stage("open_process", h.ok))
         /\ IF h.ok
              THEN /\ opens' = [opens EXCEPT !.process = 1]
                   /\ pc' = "k_alloc"
                   /\ panic' = panic
              ELSE /\ opens' = opens
                   /\ pc' = "crashed"
                   /\ panic' = "unwrap on Err: open_process"
  /\ UNCHANGED <<snap, process_id, dll_cstring, closes, alloc, load_library, thread, remote_result,
                 kres, HandlerVars, CatalogVars>>

CloseProcessForgotten == closes' = closes
\* CloseHandle(h_process)
CloseProcess == closes' = [closes EXCEPT !.process = @ + 1]

\* VirtualAllocEx(h_process, null, dll_cstring.to_bytes_with_nul().len(), ..)
K_Alloc ==
  /\ UNCHANGED DirectVars
  /\ pc = "k_alloc"
  /\ \E addr \in {0} \cup RemoteAddrs :
       /\ stages' = Append(stages, Stage("VirtualAllocEx", addr # 0))
       /\ IF addr = 0
            THEN /\ CloseProcess
                 /\ KReturn(Err(Msg(<<"VirtualAllocEx failed">>)))
                 /\ alloc' = alloc
            ELSE /\ alloc' = [state |-> "allocated", addr |-> addr,
                              size |-> Len(to_bytes_with_nul(dll_cstring)), bytes |-> <<>>]
                 /\ pc' = "k_write"
                 /\ UNCHANGED <<closes, kres>>
  /\ UNCHANGED <<panic, snap, process_id, dll_cstring, opens, load_library, thread, remote_result,
                 HandlerVars, CatalogVars>>

\* WriteProcessMemory(h_process, alloc, dll_cstring.as_ptr(), len, null)
K_Write ==
  /\ UNCHANGED DirectVars
  /\ pc = "k_write"
  /\ \E wrote \in BOOLEAN :
       /\ stages' = Append(stages, Stage("WriteProcessMemory", wrote))
       /\ IF ~wrote
            THEN /\ CloseProcess
                 /\ KReturn(Err(Msg(<<"WriteProcessMemory failed">>)))
                 /\ alloc' = alloc
            ELSE /\ alloc' = [alloc EXCEPT !.state = "written",
                                           !.bytes = SubSeq(to_bytes_with_nul(dll_cstring), 1,
                                                            Len(to_bytes_with_nul(dll_cstring)))]
                 /\ pc' = "k_getproc"
                 /\ UNCHANGED <<closes, kres>>
  /\ UNCHANGED <<panic, snap, process_id, dll_cstring, opens, load_library, thread, remote_result,
                 HandlerVars, CatalogVars>>

\* GetProcAddress(GetModuleHandleA("kernel32.dll"), "LoadLibraryA")
K_GetProc ==
  /\ UNCHANGED DirectVars
  /\ pc = "k_getproc"
  /\ \E found \in BOOLEAN :
       /\ stages' = Append(stages, Stage("GetProcAddress", found))
       /\ IF ~found
            THEN /\ CloseProcess
                 /\ KReturn(Err(Msg(<<"GetProcAddress failed">>)))
                 /\ load_library' = load_library
            ELSE /\ load_library' = "LoadLibraryA"
                 /\ pc' = "k_thread"
                 /\ UNCHANGED <<closes, kres>>
  /\ UNCHANGED <<panic, snap, process_id, dll_cstring, opens, alloc, thread, remote_result,
                 HandlerVars, CatalogVars>>

\* CreateRemoteThread(h_process, null, 0, Some(load_library), alloc, 0, null)
K_CreateThread ==
  /\ UNCHANGED DirectVars
  /\ pc = "k_thread"
  /\ \E created \in BOOLEAN :
       /\ stages' = Append(stages, Stage("CreateRemoteThread", created))
       /\ IF ~created
            THEN /\ CloseProcess
                 /\ KReturn(Err(Msg(<<"CreateRemoteThread failed">>)))
                 /\ UNCHANGED <<thread, opens>>
            ELSE /\ thread' = [NoThread EXCEPT !.state = "running",
                                               !.start_routine = load_library,
                                               !.parameter = alloc.addr]
                 /\ opens' = [opens EXCEPT !.thread = 1]
                 /\ pc' = "k_wait"
                 /\ UNCHANGED <<closes, kres>>
  /\ UNCHANGED <<panic, snap, process_id, dll_cstring, alloc, load_library, remote_result,
                 HandlerVars, CatalogVars>>

\* The target runs the thread: the loader returns and the thread exits with
\* the low 32 bits of what it returned.
RemoteThreadExit ==
  /\ UNCHANGED DirectVars
  /\ thread.state = "running"
  /\ \E base \in ModuleBases :
       thread' = [thread EXCEPT !.state = "exited", !.module_base = base,
                                !.exit_code = as_u32(base)]
  /\ UNCHANGED <<pc, panic, snap, process_id, dll_cstring, opens, closes, alloc,
                 load_library, remote_result, stages, kres, HandlerVars, CatalogVars>>

\* What WaitForSingleObject(thread, INFINITE) can return: WAIT_OBJECT_0,
\* once the thread has ended, or WAIT_FAILED.
WaitOutcomes == {"WAIT_OBJECT_0", "WAIT_FAILED"}

\* WaitForSingleObject(thread, INFINITE); the status it returns is dropped.
K_Wait ==
  /\ UNCHANGED DirectVars
  /\ pc = "k_wait"
  /\ \E status \in WaitOutcomes :
       /\ status = "WAIT_OBJECT_0" => thread.state = "exited"
       /\ stages' = Append(stages, Stage("WaitForSingleObject", status = "WAIT_OBJECT_0"))
  /\ pc' = "k_exit_code"
  /\ UNCHANGED <<panic, snap, process_id, dll_cstring, opens, closes, alloc, load_library,
                 thread, remote_result, kres, HandlerVars, CatalogVars>>

OutcomeConflated(got, code) ==
  IF got = 0 \/ code = 0 THEN Ok(Msg(<<"LoadLibraryA failed - did not load DLL.">>))
  ELSE Ok(MsgNum(<<"DLL Kenjected successfully at 0x">>, code))
\* The outcome message chosen from GetExitCodeThread's answer.
Outcome(got, code) ==
  IF got = 0 THEN Ok(Msg(<<"GetExitCodeThread failed.">>))
  ELSE IF code = 0 THEN Ok(Msg(<<"LoadLibraryA failed - did not load DLL.">>))
  ELSE Ok(MsgNum(<<"DLL Kenjected successfully at 0x">>, code))

\* let mut remote_result: u32 = 0; GetExitCodeThread(thread, &mut remote_result),
\* CloseHandle(thread), CloseHandle(h_process), Ok(..)
K_ExitCode ==
  /\ UNCHANGED DirectVars
  /\ pc = "k_exit_code"
  /\ \E got \in {0, 1} :
       LET code == IF thread.state = "exited" THEN thread.exit_code ELSE STILL_ACTIVE
           read == IF got # 0 THEN code ELSE 0
       IN /\ remote_result' = read
          /\ stages' = Append(stages, Stage("GetExitCodeThread", got # 0))
          /\ closes' = [closes EXCEPT !.thread = @ + 1, !.process = @ + 1]
          /\ KReturn(Outcome(got, read))
  /\ UNCHANGED <<panic, snap, process_id, dll_cstring, opens, alloc, load_library, thread,
                 HandlerVars, CatalogVars>>

\* =========================================================== get_processes
\* The handle get_process_icon opens with full rights; it is not closed.
\* (The icon itself is display data and is left out of ProcessInfo.)
get_process_icon(pid, os) ==
  LET h == open_process("Full", pid, os) IN
    IF h.ok THEN {[by |-> "get_process_icon", access |-> "Full"]} ELSE {}

push_unless_protected(vec, info) ==
  IF info.elevated /\ info.arch = "Unknown" THEN vec ELSE Append(vec, info)
\* processes.push(ProcessInfo {..})
push(vec, info) == Append(vec, info)

\* What the two inspectors can return for an opened process.
ElevatedResults == {is_elevated(t) : t \in TokenOutcomes}
ArchResults == {architecture(w) : w \in WowOutcomes}

FoldElevatedUnopened(process, el) == IF el.ok THEN el.val ELSE TRUE
\* The folds of the two inspectors' results into the descriptor.
FoldElevated(process, el) == IF process.ok THEN (IF el.ok THEN el.val ELSE TRUE) ELSE TRUE
FoldArch(process, ar) == IF process.ok THEN (IF ar.ok THEN ar.val ELSE "Unknown") ELSE "Unknown"

Vec_new_uncleared == <<[elevated |-> TRUE, name |-> <<97>>, arch |-> "Unknown", process_id |-> 4]>>
\* let mut processes: Vec<ProcessInfo> = Vec::new();
Vec_new == <<>>

\* The part of the loop body that inspects one process: the open, the two
\* queries and the folds, from what the OS answers each of them.
Inspect(pid, oo, t, w) ==
  LET process == open_process("Limited", pid, oo) IN
    [elevated |-> FoldElevated(process, is_elevated(t)),
     arch |-> FoldArch(process, architecture(w))]

\* CreateToolhelp32Snapshot and Process32First.  Both early returns hand
\* back the empty Vec; neither closes the snapshot.
GP_Snapshot ==
  /\ UNCHANGED DirectVars
  /\ pc = "gp_snapshot"
  /\ \E os \in SnapshotOutcomes :
       /\ gp_snapshot' = [handle |-> os.handle, entries |-> os.entries, closed |-> FALSE]
       /\ IF os.handle = "NULL" THEN pc' = "gp_return" /\ cursor' = cursor
          ELSE IF os.handle # "VALID" \/ Len(os.entries) = 0
            THEN pc' = "gp_return" /\ cursor' = cursor
          ELSE pc' = "gp_entry" /\ cursor' = 1
  /\ processes' = Vec_new
  /\ UNCHANGED <<panic, HandlerVars, KennjectVars>>

\* winapi::um::handleapi::CloseHandle(snapshot)
CloseSnapshot(s) == [s EXCEPT !.closed = TRUE]

\* One pass of the loop: the body for the current entry, then Process32Next;
\* when that finds no further entry: break, CloseHandle(snapshot) and return.
GP_Entry ==
  /\ UNCHANGED DirectVars
  /\ pc = "gp_entry"
  /\ LET entry == gp_snapshot.entries[cursor]
         pid == entry.th32ProcessID
     IN \E oo \in OpenOutcomes, io \in OpenOutcomes :
        \E el \in ElevatedResults, ar \in ArchResults :
          LET process == open_process("Limited", pid, oo)
              elevated == FoldElevated(process, el)
              arch == FoldArch(process, ar)
              name == to_string_lossy(entry.szExeFile)
          IN /\ processes' = push(processes,
                   [elevated |-> elevated, name |-> name, arch |-> arch, process_id |-> pid])
             /\ held' = held
                  \cup (IF process.ok THEN {[by |-> "get_processes", access |-> "Limited"]} ELSE {})
                  \cup get_process_icon(pid, io)
  /\ IF cursor < Len(gp_snapshot.entries)
       THEN cursor' = cursor + 1 /\ pc' = pc /\ gp_snapshot' = gp_snapshot
       ELSE /\ cursor' = cursor
            /\ gp_snapshot' = CloseSnapshot(gp_snapshot)
            /\ pc' = "gp_return"
  /\ UNCHANGED <<panic, kenjection_info, path, msgs, priv, KennjectVars>>

\* ================================================================ handlers
NoPriv == [dll |-> "none", self |-> "unknown", open |-> "none", target |-> "none"]

\* The locals of a handler that has returned.
ResetLocals ==
  /\ kenjection_info' = NoInfo
  /\ path' = <<>>
  /\ msgs' = <<>>
  /\ held' = {}
  /\ priv' = NoPriv
  /\ snap' = <<>>
  /\ process_id' = 0
  /\ dll_cstring' = <<>>
  /\ opens' = NoHandles
  /\ closes' = NoHandles
  /\ alloc' = NoAlloc
  /\ load_library' = "null"
  /\ thread' = NoThread
  /\ remote_result' = 0
  /\ stages' = <<>>
  /\ kres' = <<>>
  /\ gp_snapshot' = NoSnapshot
  /\ cursor' = 0
  /\ processes' = <<>>

\* refresh_btn.connect_clicked: get_processes, then set_items.
RefreshClicked ==
  /\ UNCHANGED DirectVars
  /\ pc = "idle"
  /\ pc' = "gp_snapshot"
  /\ UNCHANGED <<panic, HandlerVars, KennjectVars, CatalogVars>>

\* listview.set_items(&proc_info_vec): the rows go to the list store and
\* the handler (or activation) is over.
SetItems ==
  /\ UNCHANGED DirectVars
  /\ pc = "gp_return"
  /\ pc' = "idle"
  /\ ResetLocals
  /\ UNCHANGED panic

\* The rows the list store can hold: what fill_row stores of a ProcessInfo
\* get_processes emitted (column 2 the name, column 4 the ID as u64).
Rows ==
  {[name |-> to_string_lossy(e.szExeFile), process_id |-> e.th32ProcessID] : e \in Entries}

\* get_selected(): no row or one row.
Selections == {<<>>} \cup {<<r>> : r \in Rows}

MessageBox(title, detail) == msgs' = Append(msgs, [title |-> title, detail |-> detail])

\* inject_btn.connect_clicked, up to the KenjectionInfo and the path.
InjectClicked ==
  /\ UNCHANGED DirectVars
  /\ pc = "idle"
  /\ \E selected_iters \in Selections, text \in Paths :
       /\ kenjection_info' =
            IF selected_iters = <<>>
              THEN [name |-> <<>>, process_id |-> as_u32(U64_MAX)]
              ELSE [name |-> selected_iters[Len(selected_iters)].name,
                    process_id |-> as_u32(selected_iters[Len(selected_iters)].process_id)]
       /\ path' = text
  /\ pc' = "c_validate"
  /\ UNCHANGED <<panic, msgs, held, priv, KennjectVars, CatalogVars>>

path_valid_always(r) == TRUE
\* let path_valid = match kenjector.is_pe_dll(&path) { Ok(true) => true, .. => false }
path_valid(r) == r.ok /\ r.val

\* The match on is_pe_dll (a message box in two of its arms), then
\* `if path_valid {..}`.
C_Validate ==
  /\ UNCHANGED DirectVars
  /\ pc = "c_validate"
  /\ \E os \in FileOutcomes :
       LET r == is_pe_dll(os) IN
         /\ priv' = [priv EXCEPT !.dll = IF ~r.ok THEN "Err" ELSE IF r.val THEN "Ok(true)" ELSE "Ok(false)"]
         /\ IF r.ok /\ r.val THEN msgs' = msgs
            ELSE IF r.ok THEN MessageBox("Failed", Msg(<<"The chosen file is not a DLL">>))
            ELSE MessageBox("Failed", Msg(<<r.err>>))
         /\ pc' = IF path_valid(r) THEN "c_self" ELSE "c_return"
  /\ UNCHANGED <<panic, kenjection_info, path, held, KennjectVars, CatalogVars>>

\* if !kenjector.is_elevated(unsafe { GetCurrentProcess() }).unwrap() {..}
C_Self ==
  /\ UNCHANGED DirectVars
  /\ pc = "c_self"
  /\ \E os \in TokenOutcomes :
       LET r == is_elevated(os) IN
         IF ~r.ok
           THEN pc' = "crashed" /\ panic' = "unwrap on Err: is_elevated" /\ priv' = priv
           ELSE /\ panic' = panic
                /\ priv' = [priv EXCEPT !.self = IF r.val THEN "elevated" ELSE "not_elevated"]
                /\ pc' = IF r.val THEN "k_get_pid" ELSE "c_open_target"
  /\ UNCHANGED <<kenjection_info, path, msgs, held, KennjectVars, CatalogVars>>

\* match kenjector.open_process(Access::Limited, process_id) {..}
C_OpenTarget ==
  /\ UNCHANGED DirectVars
  /\ pc = "c_open_target"
  /\ \E os \in OpenOutcomes :
       LET h == open_process("Limited", kenjection_info.process_id, os) IN
         /\ priv' = [priv EXCEPT !.open = os]
         /\ IF h.ok
              THEN /\ held' = held \cup {[by |-> "inject_btn", access |-> "Limited"]}
                   /\ pc' = "c_query_target"
                   /\ msgs' = msgs
              ELSE /\ held' = held
                   /\ MessageBox("Kenjection failed",
                        Msg(<<"Can't Kenject into an elevated process without running as admin">>))
                   /\ pc' = "c_return"
  /\ UNCHANGED <<panic, kenjection_info, path, KennjectVars, CatalogVars>>

ResultName(r) == IF ~r.ok THEN "Err" ELSE IF r.val THEN "Ok(true)" ELSE "Ok(false)"

IsOkTrueNever(r) == FALSE
\* The pattern of `if let Ok(true) = ..`.
IsOkTrue(r) == r.ok /\ r.val

\* if let Ok(true) = kenjector.is_elevated(process_handle) { return; }
C_QueryTarget ==
  /\ UNCHANGED DirectVars
  /\ pc = "c_query_target"
  /\ \E os \in TokenOutcomes :
       LET r == is_elevated(os) IN
         /\ priv' = [priv EXCEPT !.target = ResultName(r)]
         /\ pc' = IF IsOkTrue(r) THEN "c_return" ELSE "k_get_pid"
  /\ UNCHANGED <<panic, kenjection_info, path, msgs, held, KennjectVars, CatalogVars>>

\* match kenjector.kennject(..) { Ok(v) => message_box(..), Err(e) => message_box(..) }
C_Report ==
  /\ UNCHANGED DirectVars
  /\ pc = "k_return"
  /\ LET r == kres[1] IN
       IF r.ok
         THEN MessageBox("Kenjection complete",
                [text |-> <<"Kenjected into {}">> \o r.val.text, num |-> r.val.num])
         ELSE MessageBox("Kenjection failed",
                [text |-> <<"Failed to Kennject into {}">> \o r.err.text, num |-> r.err.num])
  /\ pc' = "c_return"
  /\ snap' = <<>>
  /\ UNCHANGED <<panic, kenjection_info, path, held, priv, process_id, dll_cstring, opens,
                 closes, alloc, load_library, thread, remote_result, stages, kres, CatalogVars>>

\* The click handler returns.
C_Return ==
  /\ UNCHANGED DirectVars
  /\ pc = "c_return"
  /\ pc' = "idle"
  /\ ResetLocals
  /\ UNCHANGED panic

\* =========================================================== specification
\* connect_activate builds the window and calls get_processes first.
InitApp ==
  /\ pc = "gp_snapshot"
  /\ panic = ""
  /\ kenjection_info = NoInfo
  /\ path = <<>>
  /\ msgs = <<>>
  /\ held = {}
  /\ priv = NoPriv
  /\ snap = <<>>
  /\ process_id = 0
  /\ dll_cstring = <<>>
  /\ opens = NoHandles
  /\ closes = NoHandles
  /\ alloc = NoAlloc
  /\ load_library = "null"
  /\ thread = NoThread
  /\ remote_result = 0
  /\ stages = <<>>
  /\ kres = <<>>
  /\ gp_snapshot = NoSnapshot
  /\ cursor = 0
  /\ processes = <<>>

NoCall == [fn |-> "none", os |-> <<>>]

Init == InitApp /\ call = NoCall /\ ret = <<>>

Next ==
  \/ GP_Snapshot \/ GP_Entry \/ SetItems \/ RefreshClicked
  \/ InjectClicked \/ C_Validate \/ C_Self \/ C_OpenTarget \/ C_QueryTarget
  \/ K_GetPid \/ K_Path \/ K_Open \/ K_Alloc \/ K_Write \/ K_GetProc
  \/ K_CreateThread \/ RemoteThreadExit \/ K_Wait \/ K_ExitCode
  \/ C_Report \/ C_Return

Spec == Init /\ [][Next]_vars

\* ------------------------------------------------------------ direct calls
\* The public inspectors called on their own, with every answer the OS can
\* give them.
DirectCalls ==
  {[fn |-> "architecture", os |-> w] : w \in WowOutcomes}
    \cup {[fn |-> "is_elevated", os |-> t] : t \in TokenOutcomes}
    \cup {[fn |-> "is_pe_dll", os |-> f] : f \in FileOutcomes}
    \cup {[fn |-> "inspect", os |-> [process_id |-> p, open |-> oo, token |-> t, wow |-> w]] :
            p \in Pids, oo \in OpenOutcomes, t \in TokenOutcomes, w \in WowOutcomes}

AppVars ==
  <<pc, panic, kenjection_info, path, msgs, held, priv, snap, process_id, dll_cstring,
    opens, closes, alloc, load_library, thread, remote_result, stages, kres, gp_snapshot,
    cursor, processes>>

D_architecture ==
  /\ call.fn = "architecture" /\ ret = <<>>
  /\ ret' = <<architecture(call.os)>>
  /\ UNCHANGED <<call, AppVars>>

D_is_elevated ==
  /\ call.fn = "is_elevated" /\ ret = <<>>
  /\ ret' = <<is_elevated(call.os)>>
  /\ UNCHANGED <<call, AppVars>>

D_is_pe_dll ==
  /\ call.fn = "is_pe_dll" /\ ret = <<>>
  /\ ret' = <<is_pe_dll(call.os)>>
  /\ UNCHANGED <<call, AppVars>>

D_inspect ==
  /\ call.fn = "inspect" /\ ret = <<>>
  /\ ret' = <<Inspect(call.os.process_id, call.os.open, call.os.token, call.os.wow)>>
  /\ UNCHANGED <<call, AppVars>>

InitDirect == InitApp /\ call \in DirectCalls /\ ret = <<>>

NextDirect == D_architecture \/ D_is_elevated \/ D_is_pe_dll \/ D_inspect

SpecDirect == InitDirect /\ [][NextDirect]_vars

\* ================================================================== claims
\* kennject has returned (its result stays until the handler returns).
KennjectReturned == kres # <<>>
StageFailed(name) == \E i \in 1..Len(stages) : stages[i] = Stage(name, FALSE)
LastStage == stages[Len(stages)]
ErrText(r) == r.err.text[Len(r.err.text)]

\* C1: when kennject returns, whatever the outcome of each stage, every
\* handle it (or get_pid) opened - snapshot, process, remote thread - has
\* been closed exactly once; no handle it opened is ever closed twice.
C1_HandlesClosedOnce ==
  /\ \A k \in HandleKinds : opens[k] = 1 => closes[k] <= 1
  /\ KennjectReturned => \A k \in HandleKinds : opens[k] = 1 => closes[k] = 1

\* A run that opened all three handles and has returned.
C1_Witness ==
  /\ KennjectReturned
  /\ kres[1].ok
  /\ \A k \in HandleKinds : opens[k] = 1 /\ closes[k] = 1

\* C2: if opening the resolved target with full rights fails, kennject
\* returns Err naming the open stage (not the process-not-found error), the
\* program does not crash, and no later stage runs.
C2_OpenFailureIsReturned ==
  StageFailed("open_process") =>
    /\ pc # "crashed"
    /\ LastStage.stage = "open_process"
    /\ KennjectReturned
    /\ ~kres[1].ok
    /\ ErrText(kres[1]) # "Process not found"

\* C3: with a caller that is not elevated and a target that is_elevated
\* reports elevated, the Kenject handler does not call kennject: no stage
\* runs, no full-rights handle is opened, nothing is allocated or written
\* in the target.
C3_ElevatedTargetNotInjected ==
  (priv.self = "not_elevated" /\ priv.target = "Ok(true)") =>
    /\ pc = "c_return"
    /\ stages = <<>>
    /\ opens.process = 0
    /\ alloc.state = "none"
    /\ kres = <<>>

C3_Witness ==
  /\ priv.self = "not_elevated" /\ priv.target = "Ok(true)"
  /\ pc = "c_return"
  /\ [by |-> "inject_btn", access |-> "Limited"] \in held

\* C4: a click by a caller that is not elevated on a target reported
\* elevated ends with a failure shown to the user: the handler does not
\* return without a message box, and does not report success.
C4_ElevatedTargetReported ==
  (pc = "c_return" /\ priv.self = "not_elevated" /\ priv.target = "Ok(true)") =>
    /\ msgs # <<>>
    /\ msgs[Len(msgs)].title = "Kenjection failed"

\* C5: when is_elevated fails for a target, every caller treats the target
\* as elevated: get_processes records elevated = true, and the Kenject
\* handler of a caller that is not elevated does not call kennject.
C5_QueryFailureMeansElevated ==
  /\ \A t \in TokenOutcomes :
       ~is_elevated(t).ok => FoldElevated(Ok("handle"), is_elevated(t))
  /\ (priv.self = "not_elevated" /\ priv.target = "Err") =>
       /\ stages = <<>>
       /\ pc \in {"c_query_target", "c_return", "idle"}

\* --- C6, C7: what get_pid resolves
\* get_pid has run on a snapshot whose first entry was readable (the
\* snapshot is remembered until the process is opened).
AfterGetPid == snap # <<>> /\ snap[1].handle = "VALID" /\ Len(snap[1].entries) > 0
FreshEntries == snap[1].entries

UpperAscii(b) == IF b >= 97 /\ b <= 122 THEN b - 32 ELSE b

\* Equal but for the case of the ASCII letters.
SameIgnoringAsciiCase(a, b) ==
  /\ Len(a) = Len(b)
  /\ \A i \in 1..Len(a) : UpperAscii(a[i]) = UpperAscii(b[i])

\* The code points of UTF-8 text (one- and two-byte sequences).
RECURSIVE Decode(_)
Decode(b) ==
  IF b = <<>> THEN <<>>
  ELSE IF Head(b) < 128 THEN <<Head(b)>> \o Decode(Tail(b))
  ELSE <<(Head(b) - 192) * 64 + (b[2] - 128)>> \o Decode(Tail(Tail(b)))

\* Simple case folding of Basic Latin and Latin-1 letters.
FoldLetter(c) ==
  IF (c >= 65 /\ c <= 90) \/ (c >= 192 /\ c <= 222 /\ c # 215) THEN c + 32 ELSE c

\* Equal but for the case of the letters.
SameIgnoringCase(a, b) ==
  IF ValidUtf8From(a, 1) /\ ValidUtf8From(b, 1)
    THEN LET x == Decode(a)
             y == Decode(b)
         IN Len(x) = Len(y) /\ \A i \in 1..Len(x) : FoldLetter(x[i]) = FoldLetter(y[i])
    ELSE a = b

\* Index of the first entry whose name is Same(..) as name, or 0.
FirstSame(Same(_, _), entries, name) ==
  IF \E i \in 1..Len(entries) : Same(entries[i].szExeFile, name)
    THEN CHOOSE i \in 1..Len(entries) :
           /\ Same(entries[i].szExeFile, name)
           /\ \A j \in 1..(i - 1) : ~Same(entries[j].szExeFile, name)
    ELSE 0

NotFoundErr == Err(Msg(<<"Failed to get PID: ", "Process not found">>))

ResolvesFirst(Same(_, _)) ==
  AfterGetPid =>
    LET i == FirstSame(Same, FreshEntries, kenjection_info.name) IN
      IF i # 0
        THEN stages[1] = Stage("get_pid", TRUE) /\ process_id = FreshEntries[i].th32ProcessID
        ELSE /\ KennjectReturned
             /\ kres = <<NotFoundErr>>
             /\ stages = <<Stage("get_pid", FALSE)>>
             /\ opens.process = 0
             /\ alloc.state = "none"

\* C6, as claimed: get_pid resolves the first entry of the fresh snapshot
\* whose name equals the requested name ignoring letter case; with no such
\* entry kennject returns process-not-found, having opened no process and
\* touched no remote memory.
C6_ResolvesFirstIgnoringCase == ResolvesFirst(SameIgnoringCase)

\* C6, amended: the same with the comparison ignoring the case of ASCII
\* letters only (every other byte of the name must be equal).
C6_ResolvesFirstIgnoringAsciiCase == ResolvesFirst(SameIgnoringAsciiCase)

\* The second entry is the first match, and matches only up to case.
C6_Witness ==
  /\ AfterGetPid
  /\ pc = "k_path"
  /\ Len(FreshEntries) >= 2
  /\ FirstSame(SameIgnoringAsciiCase, FreshEntries, kenjection_info.name) = 2
  /\ FreshEntries[2].szExeFile # kenjection_info.name
  /\ process_id = FreshEntries[2].th32ProcessID

\* C7: if the request's process_id is the ID of no process in the fresh
\* snapshot, kennject returns the not-found error, whatever else the
\* snapshot lists.
C7_StalePidIsNotFound ==
  (AfterGetPid /\ \A i \in 1..Len(FreshEntries) :
                    FreshEntries[i].th32ProcessID # kenjection_info.process_id) =>
    /\ KennjectReturned
    /\ kres = <<NotFoundErr>>

\* --- C8, C9: architecture
DocumentedPairs ==
  {[pm |-> OsMachine.UNKNOWN, nm |-> OsMachine.AMD64, arch |-> "AMDx64"],
   [pm |-> OsMachine.I386, nm |-> OsMachine.AMD64, arch |-> "AMDx86"],
   [pm |-> OsMachine.I386, nm |-> OsMachine.I386, arch |-> "AMDx86"],
   [pm |-> OsMachine.UNKNOWN, nm |-> OsMachine.ARM64, arch |-> "Arm64"]}

ArchitectureReturned == call.fn = "architecture" /\ ret # <<>>

\* C8: when the OS query succeeds on a documented pair, architecture
\* returns the documented classification of that pair.
C8_DocumentedPairs ==
  (ArchitectureReturned /\ call.os.ok) =>
    \A d \in DocumentedPairs :
      (call.os.process_machine = d.pm /\ call.os.native_machine = d.nm) => ret[1] = Ok(d.arch)

\* C9: when the OS query succeeds on any other pair, architecture returns
\* Ok(Unknown); it returns an error only when the OS query fails.
C9_OtherPairsUnknown ==
  ArchitectureReturned =>
    /\ ret[1].ok = call.os.ok
    /\ (/\ call.os.ok
        /\ \A d \in DocumentedPairs :
             ~(call.os.process_machine = d.pm /\ call.os.native_machine = d.nm))
         => ret[1] = Ok("Unknown")

\* --- C10: get_processes
GpEntries == gp_snapshot.entries

\* The descriptor at i carries the ID and the name of the entry at i (the
\* name as text: the bytes when they are UTF-8, else their lossy decoding).
Carries(i) ==
  /\ processes[i].process_id = GpEntries[i].th32ProcessID
  /\ IF ValidUtf8From(GpEntries[i].szExeFile, 1)
       THEN processes[i].name = GpEntries[i].szExeFile
       ELSE processes[i].name # <<>> /\ ValidUtf8From(processes[i].name, 1)

InspectReturned == call.fn = "inspect" /\ ret # <<>>

\* C11: a descriptor says not elevated only if the limited-access handle
\* opened and is_elevated returned Ok(false); its arch differs from Unknown
\* only if the handle opened and architecture returned Ok with that value;
\* and neither field changes with what the other inspector answered.
C11_FoldsAreStrictAndIndependent ==
  InspectReturned =>
    LET o == call.os
        el == is_elevated(o.token)
        ar == architecture(o.wow)
    IN /\ ~ret[1].elevated => (o.open = "granted" /\ el.ok /\ ~el.val)
       /\ ret[1].arch # "Unknown" => (o.open = "granted" /\ ar.ok /\ ar.val = ret[1].arch)
       /\ \A t \in TokenOutcomes : Inspect(o.process_id, o.open, t, o.wow).arch = ret[1].arch
       /\ \A w \in WowOutcomes : Inspect(o.process_id, o.open, o.token, w).elevated = ret[1].elevated

\* The handle opened, is_elevated answered Ok(false), architecture failed.
C11_Witness ==
  /\ InspectReturned
  /\ call.os.open = "granted"
  /\ ~architecture(call.os.wow).ok
  /\ ~ret[1].elevated
  /\ ret[1].arch = "Unknown"

\* --- C12, C13: the outcome kennject reports
ThreadCreated == opens.thread = 1

UnreadableMsg == Msg(<<"GetExitCodeThread failed.">>)
LoadFailedMsg == Msg(<<"LoadLibraryA failed - did not load DLL.">>)

DigitValue(c) == CHOOSE k \in 0..15 : HexDigits[k + 1] = c

RECURSIVE HexValue(_)
HexValue(d) ==
  IF d = <<>> THEN 0
  ELSE HexValue(SubSeq(d, 1, Len(d) - 1)) * 16 + DigitValue(d[Len(d)])

\* The message says: loaded at the address n, written in hexadecimal.
IsLoadedAt(m, n) ==
  /\ m.text = <<"DLL Kenjected successfully at 0x">>
  /\ m.num # <<>>
  /\ HexValue(m.num) = n

\* C12: once the remote thread was created kennject returns Ok, with the
\* unreadable message when the exit-code read failed (whatever the code),
\* the load-failed message when it succeeded with code zero, and the
\* loaded-at message carrying the code in hexadecimal otherwise; the three
\* messages differ pairwise.
C12_ThreeOutcomes ==
  /\ UnreadableMsg # LoadFailedMsg
  /\ ~IsLoadedAt(UnreadableMsg, 0) /\ ~IsLoadedAt(LoadFailedMsg, 0)
  /\ (ThreadCreated /\ KennjectReturned) =>
       /\ kres[1].ok
       /\ LastStage.stage = "GetExitCodeThread"
       /\ IF ~LastStage.ok THEN kres[1].val = UnreadableMsg
          ELSE IF remote_result = 0 THEN kres[1].val = LoadFailedMsg
          ELSE IsLoadedAt(kres[1].val, remote_result)

\* The exit code was read as 0x10 and is reported with two digits.
C12_Witness ==
  /\ ThreadCreated /\ KennjectReturned
  /\ LastStage = Stage("GetExitCodeThread", TRUE)
  /\ remote_result = 16
  /\ kres[1].val.num = <<"1", "0">>

\* C13: when the wait saw the thread end and the exit code was read,
\* kennject reports load-failed only if the base address the loader
\* returned in the target is zero, and otherwise reports that base address
\* as the loaded-at address.
C13_ReportsBaseAddress ==
  (/\ ThreadCreated /\ KennjectReturned
   /\ stages[Len(stages) - 1] = Stage("WaitForSingleObject", TRUE)
   /\ LastStage = Stage("GetExitCodeThread", TRUE)) =>
    IF thread.module_base = 0 THEN kres[1].val = LoadFailedMsg
    ELSE IsLoadedAt(kres[1].val, thread.module_base)

\* --- C14: is_pe_dll
IsPeDllReturned == call.fn = "is_pe_dll" /\ ret # <<>>

\* Bit 13 (0x2000) of the characteristics is set.
HasLibraryFlag(c) == (c % 16384) >= 8192

\* C14: is_pe_dll returns Ok(true) exactly for a readable, well-formed
\* image with the library flag, Ok(false) exactly for a readable,
\* well-formed image without it, and an error exactly when the file cannot
\* be read or does not parse.
C14_ClassifiesImages ==
  IsPeDllReturned =>
    LET f == call.os
        r == ret[1]
        WellFormed == f.read /\ f.parse
    IN /\ (r.ok /\ r.val) <=> (WellFormed /\ HasLibraryFlag(f.characteristics))
       /\ (r.ok /\ ~r.val) <=> (WellFormed /\ ~HasLibraryFlag(f.characteristics))
       /\ ~r.ok <=> ~WellFormed

\* A library image that also carries the executable-image bits (0x2102).
C14_Witness ==
  /\ IsPeDllReturned
  /\ call.os.read /\ call.os.parse /\ call.os.characteristics = 8450
  /\ ret = <<Ok(TRUE)>>

\* --- C15 .. C18: get_processes
\* C15: when the snapshot cannot be created or its first entry cannot be
\* read, get_processes returns the empty list, and the program has not
\* panicked.
C15_FailsClosed ==
  (pc = "gp_return" /\ (gp_snapshot.handle # "VALID" \/ Len(GpEntries) = 0)) =>
    /\ processes = <<>>
    /\ panic = ""

\* get_processes returns after Process32First failed on a valid snapshot.
C15_Witness ==
  /\ pc = "gp_return"
  /\ gp_snapshot.handle = "VALID"
  /\ Len(GpEntries) = 0
  /\ processes = <<>>

\* C16: whenever get_processes returns after the snapshot handle was
\* created, it has closed that handle.
C16_SnapshotClosedOnReturn ==
  (pc = "gp_return" /\ gp_snapshot.handle = "VALID") => gp_snapshot.closed

\* C17: when get_processes or the Kenject click handler returns, no process
\* handle opened outside kennject (by get_processes, get_process_icon or
\* the handler's privilege check) is still open.
C17_NoProcessHandleLeftOpen ==
  pc \in {"gp_return", "c_return"} => held = {}

\* C18: every descriptor get_processes emits has a non-empty name and a
\* process_id greater than zero.
C18_NamedAndPositiveId ==
  \A i \in 1..Len(processes) :
    processes[i].name # <<>> /\ processes[i].process_id > 0

\* --- C19, C20: the Kenject click handler
KennjectPcs ==
  {"k_get_pid", "k_path", "k_open", "k_alloc", "k_write", "k_getproc", "k_thread",
   "k_wait", "k_exit_code", "k_return"}

\* The handler has called kennject in this click.
KennjectCalled == pc \in KennjectPcs \/ stages # <<>>

\* How often kennject was entered: it starts with get_pid.
KennjectCalls == Cardinality({i \in 1..Len(stages) : stages[i].stage = "get_pid"})

\* The handler's privilege check let the click through: the caller is
\* elevated, or the target opened and was not reported elevated.
PrivilegeCheckPassed ==
  \/ priv.self = "elevated"
  \/ priv.self = "not_elevated" /\ priv.open = "granted" /\ priv.target \in {"Ok(false)", "Err"}

PrivilegeMsg == Msg(<<"Can't Kenject into an elevated process without running as admin">>)

\* C20: when the selected process no longer exists at the time of the
\* click, the failure shown to the user is not the privilege failure.
C20_VanishedProcessNotBlamedOnPrivilege ==
  priv.open = "no_such_process" =>
    \A i \in 1..Len(msgs) : msgs[i].detail # PrivilegeMsg

\* --- C21 .. C24: the injection protocol
StageOrder ==
  <<"get_pid", "open_process", "VirtualAllocEx", "WriteProcessMemory", "GetProcAddress",
    "CreateRemoteThread", "WaitForSingleObject", "GetExitCodeThread">>

IsProtocolStage(e) == \E k \in 1..Len(StageOrder) : StageOrder[k] = e.stage

\* The calls of the eight stages that this run of kennject has made.
StageCalls == SelectSeq(stages, IsProtocolStage)

\* C21: in every run of kennject the stage calls made so far are the first
\* stages of the fixed order, each once, and every call but the latest
\* succeeded: a stage is called only after all earlier ones succeeded, and
\* nothing is called after a failure.
C21_StagesInOrderUntilFailure ==
  /\ Len(StageCalls) <= Len(StageOrder)
  /\ \A i \in 1..Len(StageCalls) : StageCalls[i].stage = StageOrder[i]
  /\ \A i \in 1..Len(stages) : i < Len(stages) => stages[i].ok

\* C22: once the remote thread is created, kennject has not read the exit
\* code, closed the thread or process handle, or returned unless the
\* remote thread has terminated, whatever the wait returned.
C22_NothingBeforeThreadEnd ==
  (/\ ThreadCreated
   /\ \/ LastStage.stage = "GetExitCodeThread"
      \/ closes.thread > 0
      \/ closes.process > 0
      \/ KennjectReturned) => thread.state = "exited"

\* C23: when kennject returns an error after the remote allocation
\* succeeded, the allocation has been released.
C23_FailedInjectionFreesMemory ==
  (KennjectReturned /\ ~kres[1].ok /\ alloc.state # "none") => alloc.state = "freed"

\* The path is not Unicode text, or holds a NUL.
Unconvertible(p) == \E i \in 1..Len(p) : IsSurrogate(p[i]) \/ p[i] = 0

PathConverted == \E i \in 1..Len(stages) : stages[i].stage = "to_str"

\* C24: the size requested from the remote allocation is the byte length
\* of the module path plus one, the bytes written are as many: the path's
\* bytes and then the only NUL; the remote thread is started at the
\* resolved loader entry point with the address of that allocation as its
\* argument; a path that cannot be converted makes kennject return an
\* error with no process handle opened.
C24_PathTransferredWhole ==
  /\ alloc.state # "none" => alloc.size = Len(Utf8Bytes(path)) + 1
  /\ alloc.state = "written" =>
       /\ Len(alloc.bytes) = alloc.size
       /\ SubSeq(alloc.bytes, 1, alloc.size - 1) = Utf8Bytes(path)
       /\ alloc.bytes[alloc.size] = 0
       /\ \A i \in 1..(alloc.size - 1) : alloc.bytes[i] # 0
  /\ thread.state # "none" =>
       /\ alloc.state = "written"
       /\ load_library = "LoadLibraryA"
       /\ thread.start_routine = load_library
       /\ thread.parameter = alloc.addr
  /\ (PathConverted /\ Unconvertible(path)) =>
       /\ KennjectReturned /\ ~kres[1].ok
       /\ opens.process = 0
       /\ ~\E i \in 1..Len(stages) : stages[i].stage = "open_process"

\* The thread was started for a path of two characters and three bytes.
C24_Witness ==
  /\ thread.state # "none"
  /\ path = <<99, 233>>
  /\ alloc.size = 4
  /\ alloc.bytes = <<99, 195, 169, 0>>

\* --- C25: the process kennject opens
\* C25: when the process with the request's process_id is in the fresh
\* snapshot, the ID that get_pid resolved, which kennject passes to
\* open_process(Access::Full, ..), is the request's process_id.
C25_OpensTheSelectedProcess ==
  (/\ AfterGetPid
   /\ stages[1] = Stage("get_pid", TRUE)
   /\ \E i \in 1..Len(FreshEntries) :
        FreshEntries[i].th32ProcessID = kenjection_info.process_id) =>
    process_id = kenjection_info.process_id

====
